---- MODULE Spec2Model ----
(***************************************************************************)
(* Verification model of the map-maker core:                               *)
(*   - the Shamos-Hoey sweep of functions/detail (shamos_hoey, intersect,  *)
(*     EventQueue, SweepLine),                                             *)
(*   - the undirected adjacency graph (model/graph/undirected_graph.hpp),  *)
(*   - the balance calculator (mapmaker/calculator.hpp, ArmyCalculator),   *)
(*   - the label engine of functions/detail (Cell, get_centroid,           *)
(*     polylabel).                                                         *)
(* Each component has its own specification; the variables of the other    *)
(* components stay at their initial value.                                 *)
(***************************************************************************)
EXTENDS Integers, Sequences, FiniteSets, Bags, TLC

(***************************************************************************)
(* Bounds of the model.                                                    *)
(***************************************************************************)
\* general sweep: segment lists of length <= MaxSegs over the first MaxPoints
\* points of a grid of height 2
MaxSegs == 3
MaxPoints == 3
\* two-segment sweep: both segments over (0..PairMax) x (0..PairMax)
PairMax == 2
\* ring sweep: the four corners of the ring over (0..RingMax) x (0..RingMax)
RingMax == 2
\* graph: vertex ids 0..MaxVertex, at most MaxInserts different edges inserted
MaxVertex == 2
MaxInserts == 3
\* calculator: maps of at most MaxTerritories territories, army bounds in
\* 0..MaxArmies
MaxTerritories == 3
MaxArmies == 4
\* label engine: squares and degenerate rectangles with sides of at most MaxSide
MaxSide == 3
\* convert handler: number of distinct OSM ids of each kind
MaxOsm == 3
\* convert handler: number of complete_relation calls the model follows
MaxRelations == 4

VARIABLES
    segments,     \* shamos_hoey: the input vector of segments
    ring,         \* the corners <<a,b,c,d>> the input was built from (ring sweep only)
    eq,           \* shamos_hoey: the event queue (events not yet popped)
    m_segments,   \* SweepLine::m_segments, index -> segment
    m_tree,       \* SweepLine::m_tree, in iteration order
    sh_pc,        \* position in shamos_hoey: "idle", "start", "loop", "done"
    sh_result,    \* "none", "true", "false", "out_of_range", "crash"
    sh_past_end,  \* TRUE once an iterator was stepped past the end of m_tree
    sh_tests,     \* the intersect calls of the last processed event
    m_edges,      \* Graph::m_edges of the undirected graph
    m_vertices,   \* the vertex counter of the undirected graph
    g_inserted,   \* history: the edges passed to insert_edge
    g_ret,        \* the last call on the graph and its return value
    m_territories,\* ArmyCalculator::m_territories, the territory ids in order
    m_bonuses,    \* ArmyCalculator::m_bonuses, records [children, armies]
    m_super_bonuses, \* ArmyCalculator::m_super_bonuses, records [children, armies]
    c_pc,         \* position of the calculator: "idle", "ready", "done"
    c_args,       \* the arguments of the calculate_armies call
    c_locals,     \* per bonus, the locals outer_adjacents and score of the loop body
    polygon,      \* polylabel: the polygon, a record with the ring outer
    pl_T,         \* the coordinate type T of the instantiation: "int" or "double"
    precision,    \* polylabel: the precision argument
    queue,        \* polylabel: the priority queue, a bag of cells
    best_cell,    \* polylabel: best_cell
    pl_pc,        \* position in polylabel: "idle", "start", "loop", "done"
    pl_result,    \* the pair polylabel returned
    pl_centroid,  \* the cell get_centroid returned
    pl_created,   \* history: every cell constructed for the queue
    pl_split,     \* history: the cells that were subdivided
    pl_prev,      \* history: precision and result of an earlier call on the polygon
    pl_popped,    \* history: the cells popped from the queue
    sh_prev,      \* history: input and result of an earlier shamos_hoey call
    m_nodes,      \* ConvertHandler::m_nodes, the node buffer
    m_ways,       \* ConvertHandler::m_ways, the way buffer
    m_relations,  \* ConvertHandler::m_relations, the relation buffer
    m_nids,       \* ConvertHandler::m_nids, OSM node id -> internal id
    m_wids,       \* ConvertHandler::m_wids, OSM way id -> internal id
    m_rids,       \* ConvertHandler::m_rids, OSM relation id -> internal id
    ch_ret        \* the last call on the handler and the object it returned

sweep_vars == <<segments, ring, eq, m_segments, m_tree, sh_pc, sh_result, sh_past_end, sh_tests,
                sh_prev>>
graph_vars == <<m_edges, m_vertices, g_inserted, g_ret>>
calc_vars == <<m_territories, m_bonuses, m_super_bonuses, c_pc, c_args, c_locals>>
label_vars == <<polygon, pl_T, precision, queue, best_cell, pl_pc, pl_result, pl_centroid,
                pl_created, pl_split, pl_prev, pl_popped>>
convert_vars == <<m_nodes, m_ways, m_relations, m_nids, m_wids, m_rids, ch_ret>>
vars == <<segments, ring, eq, m_segments, m_tree, sh_pc, sh_result, sh_past_end, sh_tests,
          m_edges, m_vertices, g_inserted, g_ret,
          m_territories, m_bonuses, m_super_bonuses, c_pc, c_args, c_locals,
          polygon, pl_T, precision, queue, best_cell, pl_pc, pl_result, pl_centroid,
          pl_created, pl_split, pl_prev, pl_popped, sh_prev,
          m_nodes, m_ways, m_relations, m_nids, m_wids, m_rids, ch_ret>>

(***************************************************************************)
(* Geometry primitives.                                                    *)
(***************************************************************************)
\* a point is <<x, y>>
PX(p) == p[1]
PY(p) == p[2]

\* a segment keeps its acquisition order
Segment(p, q) == [first |-> p, last |-> q]

\* the xy-order of points: by x, then by y
compare_lt(p, q) == PX(p) < PX(q) \/ (PX(p) = PX(q) /\ PY(p) < PY(q))

compare_gt(p, q) == PX(p) > PX(q) \/ (PX(p) = PX(q) /\ PY(p) > PY(q))

\* distance(p, s1, s2) as the source computes it (note the s1.x() in the last factor)
distance(p, s1, s2) ==
    (PX(s1) - PX(p)) * (PY(s2) - PY(p)) - (PX(s2) - PX(p)) * (PX(s1) - PY(p))

(***************************************************************************)
(* Events and the event queue.                                             *)
(***************************************************************************)
Event(i, p, t) == [edge |-> i, point |-> p, type |-> t]

\* the vector index i of the source is 0-based
SegAt(segs, i) == segs[i + 1]

\* the two events EventQueue's constructor pushes for segment i
EventsOf(segs, i) ==
    LET p1 == SegAt(segs, i).first
        p2 == SegAt(segs, i).last
    IN  IF compare_lt(p1, p2)
        THEN {Event(i, p1, "LEFT"), Event(i, p2, "RIGHT")}
        ELSE {Event(i, p1, "RIGHT"), Event(i, p2, "LEFT")}

EventQueue(segs) == UNION {EventsOf(segs, i) : i \in 0..(Len(segs) - 1)}

EventComparator(e1, e2) == compare_gt(e1.point, e2.point)

\* the events top() may return: those no other queued event has priority over.
\* std::priority_queue leaves the order of equivalent elements open.
Top(q) == {e \in q : \A e2 \in q : ~EventComparator(e, e2)}

(***************************************************************************)
(* Sweep line.                                                             *)
(***************************************************************************)
SLSegment(i, l, r) == [edge |-> i, left |-> l, right |-> r]

convert(index, segment) ==
    IF compare_lt(segment.first, segment.last)
    THEN SLSegment(index, segment.first, segment.last)
    ELSE SLSegment(index, segment.last, segment.first)

SharePoint(s1, s2) ==
    \/ s1.left = s2.left
    \/ s1.right = s2.right
    \/ s1.left = s2.right
    \/ s1.right = s2.left

\* an intersect without the test for a common endpoint
intersect_noshare(s1, s2) ==
    IF distance(s1.left, s1.right, s2.left) * distance(s1.left, s1.right, s2.right) > 0
    THEN FALSE
    ELSE IF distance(s2.left, s2.right, s1.left) * distance(s2.left, s2.right, s1.right) > 0
         THEN FALSE
    ELSE TRUE

intersect(s1, s2) ==
    IF SharePoint(s1, s2) THEN FALSE
    ELSE IF distance(s1.left, s1.right, s2.left) * distance(s1.left, s1.right, s2.right) > 0
         THEN FALSE
    ELSE IF distance(s2.left, s2.right, s1.left) * distance(s2.left, s2.right, s1.right) > 0
         THEN FALSE
    ELSE TRUE

SLSegmentComparator(s1, s2) ==
    IF compare_lt(s1.left, s2.left) THEN TRUE
    ELSE IF compare_gt(s1.left, s2.left) THEN FALSE
    ELSE IF compare_lt(s1.right, s2.right) THEN TRUE
    ELSE FALSE

\* std::set: two keys are equivalent when neither orders before the other
Equivalent(s1, s2) == ~SLSegmentComparator(s1, s2) /\ ~SLSegmentComparator(s2, s1)

\* position of the first element not ordered before s (Len + 1 is end())
LowerPos(tree, s) ==
    Cardinality({k \in 1..Len(tree) : SLSegmentComparator(tree[k], s)}) + 1

TreeEnd(tree) == Len(tree) + 1

\* m_tree.find(s): the position of the element equivalent to s, or end()
TreeFind(tree, s) ==
    LET k == LowerPos(tree, s)
    IN  IF k <= Len(tree) /\ Equivalent(tree[k], s) THEN k ELSE TreeEnd(tree)

\* m_tree.insert(s): an equivalent element blocks the insertion
TreeInsert(tree, s) ==
    LET k == LowerPos(tree, s)
    IN  IF k <= Len(tree) /\ Equivalent(tree[k], s)
        THEN tree
        ELSE SubSeq(tree, 1, k - 1) \o <<s>> \o SubSeq(tree, k, Len(tree))

\* m_tree.erase(s)
TreeErase(tree, s) ==
    LET k == TreeFind(tree, s)
    IN  IF k = TreeEnd(tree) THEN tree
        ELSE SubSeq(tree, 1, k - 1) \o SubSeq(tree, k + 1, Len(tree))

\* SweepLine::get for an index that is present in m_segments
get(index) == convert(index, m_segments[index])

MapPut(m, k, v) == [i \in (DOMAIN m) \cup {k} |-> IF i = k THEN v ELSE m[i]]

MapErase(m, k) == [i \in (DOMAIN m) \ {k} |-> m[i]]

EmptyMap == [i \in {} |-> 0]

Test(s1, s2) == [s1 |-> s1, s2 |-> s2, result |-> intersect(s1, s2)]

(***************************************************************************)
(* shamos_hoey, one action per step of its loop.                           *)
(***************************************************************************)
\* construction of the sweep line and of the event queue
Construct ==
    /\ sh_pc = "start"
    /\ eq' = EventQueue(segments)
    /\ m_segments' = EmptyMap
    /\ m_tree' = <<>>
    /\ sh_pc' = "loop"
    /\ UNCHANGED <<segments, ring, sh_result, sh_past_end, sh_tests, sh_prev>>

\* the tests a LEFT event makes for the element at position k of tree
LeftAbove(tree, k) == IF k # 1 THEN {Test(tree[k], tree[k - 1])} ELSE {}

LeftBelow(tree, k) == IF k + 1 # TreeEnd(tree) THEN {Test(tree[k], tree[k + 1])} ELSE {}

LeftEvent ==
    /\ sh_pc = "loop"
    /\ \E e \in Top(eq) :
        /\ e.type = "LEFT"
        /\ LET s     == convert(e.edge, SegAt(segments, e.edge))
               tree  == TreeInsert(m_tree, s)
               it_s  == TreeFind(tree, s)
               above == LeftAbove(tree, it_s)
               below == LeftBelow(tree, it_s)
               hitA  == \E t \in above : t.result
               hitB  == \E t \in below : t.result
           IN  /\ eq' = eq \ {e}
               /\ m_segments' = MapPut(m_segments, e.edge, SegAt(segments, e.edge))
               /\ m_tree' = tree
               /\ sh_tests' = IF hitA THEN above ELSE above \cup below
               /\ IF hitA \/ hitB
                  THEN sh_pc' = "done" /\ sh_result' = "true"
                  ELSE sh_pc' = "loop" /\ sh_result' = sh_result
    /\ UNCHANGED <<segments, ring, sh_past_end, sh_prev>>

\* what the build may do after std::next(end()): report a crossing, go on
\* to the erase, or stop abnormally
PastEndOutcomes == {"true", "continue", "crash"}

RightEvent ==
    /\ sh_pc = "loop"
    /\ \E e \in Top(eq) :
        /\ e.type = "RIGHT"
        /\ eq' = eq \ {e}
        /\ IF e.edge \notin DOMAIN m_segments
           THEN \* m_segments.at(index) throws std::out_of_range
                /\ sh_pc' = "done"
                /\ sh_result' = "out_of_range"
                /\ UNCHANGED <<m_segments, m_tree, sh_past_end, sh_tests>>
           ELSE LET s    == get(e.edge)
                    it_s == TreeFind(m_tree, s)
                IN  IF it_s # 1 /\ it_s = TreeEnd(m_tree)
                    THEN \* it_s is end() of a non-empty tree: std::next(it_s) is undefined
                         /\ sh_past_end' = TRUE
                         /\ sh_tests' = {}
                         /\ \E o \in PastEndOutcomes :
                              CASE o = "true" ->
                                     /\ sh_pc' = "done"
                                     /\ sh_result' = "true"
                                     /\ UNCHANGED <<m_segments, m_tree>>
                                [] o = "crash" ->
                                     /\ sh_pc' = "done"
                                     /\ sh_result' = "crash"
                                     /\ UNCHANGED <<m_segments, m_tree>>
                                [] OTHER ->
                                     /\ sh_pc' = "loop"
                                     /\ sh_result' = sh_result
                                     /\ m_segments' = MapErase(m_segments, e.edge)
                                     /\ m_tree' = TreeErase(m_tree, s)
                    ELSE LET both == it_s # 1 /\ it_s + 1 # TreeEnd(m_tree)
                             test == IF both THEN {Test(m_tree[it_s - 1], m_tree[it_s + 1])} ELSE {}
                         IN  /\ sh_tests' = test
                             /\ UNCHANGED sh_past_end
                             /\ IF \E t \in test : t.result
                                THEN /\ sh_pc' = "done"
                                     /\ sh_result' = "true"
                                     /\ UNCHANGED <<m_segments, m_tree>>
                                ELSE /\ sh_pc' = "loop"
                                     /\ sh_result' = sh_result
                                     /\ m_segments' = MapErase(m_segments, e.edge)
                                     /\ m_tree' = TreeErase(m_tree, s)
    /\ UNCHANGED <<segments, ring, sh_prev>>

\* the loop ends with an empty queue: no intersection was found
ReturnFalse ==
    /\ sh_pc = "loop"
    /\ eq = {}
    /\ sh_pc' = "done"
    /\ sh_result' = "false"
    /\ UNCHANGED <<segments, ring, eq, m_segments, m_tree, sh_past_end, sh_tests, sh_prev>>

NextSweep ==
    \/ Construct /\ UNCHANGED <<graph_vars, calc_vars, label_vars, convert_vars>>
    \/ LeftEvent /\ UNCHANGED <<graph_vars, calc_vars, label_vars, convert_vars>>
    \/ RightEvent /\ UNCHANGED <<graph_vars, calc_vars, label_vars, convert_vars>>
    \/ ReturnFalse /\ UNCHANGED <<graph_vars, calc_vars, label_vars, convert_vars>>

(***************************************************************************)
(* Inputs of the sweep.                                                    *)
(***************************************************************************)
Points(mx, my) == (0..mx) \X (0..my)

\* the first n points, in xy-order, of the grid with y in 0..1
FirstPoints(n) == {<<k \div 2, k % 2>> : k \in 0..(n - 1)}

SegmentsOver(pts) == {Segment(p, q) : p \in pts, q \in pts}

ListsUpTo(S, n) == UNION {[1..k -> S] : k \in 0..n}

SweepStart ==
    /\ eq = {}
    /\ m_segments = EmptyMap
    /\ m_tree = <<>>
    /\ sh_pc = "start"
    /\ sh_result = "none"
    /\ sh_past_end = FALSE
    /\ sh_tests = {}
    /\ sh_prev = [op |-> "none"]

GraphStart ==
    /\ m_edges = {}
    /\ m_vertices = 0
    /\ g_inserted = {}
    /\ g_ret = [op |-> "none"]

CalcIdle ==
    /\ m_territories = <<>>
    /\ m_bonuses = <<>>
    /\ m_super_bonuses = <<>>
    /\ c_pc = "idle"
    /\ c_args = [op |-> "none"]
    /\ c_locals = <<>>

NoCell == [center |-> <<>>]

LabelIdle ==
    /\ polygon = [outer |-> <<>>]
    /\ pl_T = "double"
    /\ precision = <<1, 1>>
    /\ queue = EmptyBag
    /\ best_cell = NoCell
    /\ pl_pc = "idle"
    /\ pl_result = [op |-> "none"]
    /\ pl_centroid = NoCell
    /\ pl_created = {}
    /\ pl_split = {}
    /\ pl_prev = [op |-> "none"]
    /\ pl_popped = {}

ConvertIdle ==
    /\ m_nodes = <<>>
    /\ m_ways = <<>>
    /\ m_relations = <<>>
    /\ m_nids = EmptyMap
    /\ m_wids = EmptyMap
    /\ m_rids = EmptyMap
    /\ ch_ret = [op |-> "none"]

\* any list of at most MaxSegs segments, zero-length and repeated ones included
InitSweep ==
    /\ segments \in ListsUpTo(SegmentsOver(FirstPoints(MaxPoints)), MaxSegs)
    /\ ring = <<>>
    /\ SweepStart
    /\ GraphStart
    /\ CalcIdle
    /\ LabelIdle
    /\ ConvertIdle

Spec == InitSweep /\ [][NextSweep]_vars

\* any two segments on the larger grid
InitPair ==
    /\ segments \in [1..2 -> SegmentsOver(Points(PairMax, PairMax))]
    /\ ring = <<>>
    /\ SweepStart
    /\ GraphStart
    /\ CalcIdle
    /\ LabelIdle
    /\ ConvertIdle

SpecPair == InitPair /\ [][NextSweep]_vars

\* the four boundary segments a-b, b-c, c-d, d-a of a ring
RingSegments(r) ==
    <<Segment(r[1], r[2]), Segment(r[2], r[3]), Segment(r[3], r[4]), Segment(r[4], r[1])>>

\* orientation of c relative to the directed line a -> b (twice the signed area)
Orient(a, b, c) ==
    (PX(b) - PX(a)) * (PY(c) - PY(a)) - (PY(b) - PY(a)) * (PX(c) - PX(a))

\* a-b and c-d cross at a point interior to both
ProperCross(a, b, c, d) ==
    /\ Orient(a, b, c) * Orient(a, b, d) < 0
    /\ Orient(c, d, a) * Orient(c, d, b) < 0

Distinct4(r) == Cardinality({r[1], r[2], r[3], r[4]}) = 4

\* figure-eight: two non-adjacent edges of the ring cross properly
IsBowtie(r) ==
    /\ Distinct4(r)
    /\ \/ ProperCross(r[1], r[2], r[3], r[4])
       \/ ProperCross(r[2], r[3], r[4], r[1])

\* strictly convex quadrilateral: the boundary turns the same way at every corner
IsConvexQuad(r) ==
    LET o == <<Orient(r[1], r[2], r[3]), Orient(r[2], r[3], r[4]),
               Orient(r[3], r[4], r[1]), Orient(r[4], r[1], r[2])>>
    IN  /\ Distinct4(r)
        /\ \/ \A k \in 1..4 : o[k] > 0
           \/ \A k \in 1..4 : o[k] < 0

RingCorners == Points(RingMax, RingMax) \X Points(RingMax, RingMax)
                 \X Points(RingMax, RingMax) \X Points(RingMax, RingMax)

\* the ring is named from its smallest corner on; every order of the four
\* segments is an input, so no input list is lost
FromSmallest(r) == \A k \in 2..4 : compare_lt(r[1], r[k])

\* the boundary of a bowtie or of a convex quadrilateral, in any order
InitRing ==
    /\ ring \in {r \in RingCorners : FromSmallest(r) /\ (IsBowtie(r) \/ IsConvexQuad(r))}
    /\ \E perm \in Permutations(1..4) :
         segments = [k \in 1..4 |-> RingSegments(ring)[perm[k]]]
    /\ SweepStart
    /\ GraphStart
    /\ CalcIdle
    /\ LabelIdle
    /\ ConvertIdle

SpecRing == InitRing /\ [][NextSweep]_vars

(***************************************************************************)
(* Two calls of shamos_hoey on the same set of undirected segments.        *)
(***************************************************************************)
\* three collinear points and one point off their line
OrderPoints == {<<0, 0>>, <<0, 1>>, <<0, 2>>, <<1, 0>>}

\* the segments between two different points, written from the smaller point
UndirectedSegments ==
    {Segment(e[1], e[2]) : e \in {d \in OrderPoints \X OrderPoints : compare_lt(d[1], d[2])}}

\* the lists of MaxSegs different segments in ascending order
SortedLists ==
    {l \in [1..MaxSegs -> UndirectedSegments] :
        \A k \in 1..(MaxSegs - 1) : SLSegmentComparator(convert(0, l[k]), convert(0, l[k + 1]))}

\* the segment with first and last exchanged
Swapped(segment) == Segment(segment.last, segment.first)

\* the lists that hold the same undirected segments as l: every order of
\* the list, every segment in either direction
Arrangements(l) ==
    {[k \in 1..Len(l) |-> IF k \in flip THEN Swapped(l[perm[k]]) ELSE l[perm[k]]] :
        perm \in Permutations(1..Len(l)), flip \in SUBSET (1..Len(l))}

\* the caller keeps the result and calls shamos_hoey again on the same
\* segments in another arrangement
SweepAgain ==
    /\ sh_pc = "done"
    /\ sh_prev.op = "none"
    /\ segments' \in Arrangements(segments) \ {segments}
    /\ sh_prev' = [op |-> "return", segments |-> segments, result |-> sh_result]
    /\ eq' = {}
    /\ m_segments' = EmptyMap
    /\ m_tree' = <<>>
    /\ sh_pc' = "start"
    /\ sh_result' = "none"
    /\ sh_past_end' = FALSE
    /\ sh_tests' = {}
    /\ UNCHANGED ring

NextOrder ==
    \/ NextSweep
    \/ SweepAgain /\ UNCHANGED <<graph_vars, calc_vars, label_vars, convert_vars>>

InitOrder ==
    /\ segments \in SortedLists
    /\ ring = <<>>
    /\ SweepStart
    /\ GraphStart
    /\ CalcIdle
    /\ LabelIdle
    /\ ConvertIdle

SpecOrder == InitOrder /\ [][NextOrder]_vars

(***************************************************************************)
(* Undirected graph.                                                       *)
(***************************************************************************)
\* std::numeric_limits<vertex_type>::lowest() and ::max(); the values are
\* valid bounds of the vertex ids for every integral vertex_type of 32 bits
\* or more
VertexLowest == 0
VertexMax == 2147483647

\* std::pair's operator<, the order of m_edges
EdgeLess(e1, e2) == e1[1] < e2[1] \/ (e1[1] = e2[1] /\ e1[2] < e2[2])

\* the element of m_edges at position k of its iteration order
EdgeAt(k) == CHOOSE e \in m_edges : Cardinality({f \in m_edges : EdgeLess(f, e)}) = k - 1

EdgeEnd == Cardinality(m_edges) + 1

\* std::set::lower_bound: position of the first element not less than key
LowerBound(key) == Cardinality({f \in m_edges : EdgeLess(f, key)}) + 1

\* std::set::upper_bound: position of the first element greater than key
UpperBound(key) == Cardinality({f \in m_edges : ~EdgeLess(key, f)}) + 1

\* a reverse that does not swap
reverse_same(edge) == <<edge[1], edge[2]>>

reverse(edge) == <<edge[2], edge[1]>>

Max2(a, b) == IF a >= b THEN a ELSE b

edge_count == Cardinality(m_edges) \div 2

size == <<m_vertices, Cardinality(m_edges) \div 2>>

vertex_count == m_vertices

contains_edge(edge) == edge \in m_edges

\* a bound that starts at the vertex's own id
lower_edge_bound_own(vertex) == LowerBound(<<vertex, vertex>>)

lower_edge_bound(vertex) == LowerBound(<<vertex, VertexLowest>>)

\* a bound that takes in the edges of the next vertex as well
upper_edge_bound_next(vertex) == UpperBound(<<vertex + 1, VertexMax>>)

upper_edge_bound(vertex) == UpperBound(<<vertex, VertexMax>>)

degree(vertex) ==
    LET it_l == lower_edge_bound(vertex)
        it_u == upper_edge_bound(vertex)
    IN  IF it_l = EdgeEnd THEN 0 ELSE it_u - it_l

adjacents(vertex) ==
    LET it_l == lower_edge_bound(vertex)
        it_u == upper_edge_bound(vertex)
    IN  [k \in 1..(it_u - it_l) |-> EdgeAt(it_l + k - 1)[2]]

\* the model follows at most MaxInserts different edges; an edge that was
\* inserted before can be inserted again at any time
CanInsert(edge) == edge \in g_inserted \/ Cardinality(g_inserted) < MaxInserts

\* an insert_edge that stores the edge in the given direction only
insert_edge_oneway(edge) ==
    /\ CanInsert(edge)
    /\ m_edges' = m_edges \cup {edge}
    /\ m_vertices' = Max2(Max2(m_vertices, edge[1] + 1), edge[2] + 1)
    /\ g_inserted' = g_inserted \cup {edge}
    /\ g_ret' = [op |-> "insert_edge"]

\* an insert_edge that counts the source vertex only
insert_edge_firstonly(edge) ==
    /\ CanInsert(edge)
    /\ m_edges' = m_edges \cup {edge, reverse(edge)}
    /\ m_vertices' = Max2(m_vertices, edge[1] + 1)
    /\ g_inserted' = g_inserted \cup {edge}
    /\ g_ret' = [op |-> "insert_edge"]

insert_edge(edge) ==
    /\ CanInsert(edge)
    /\ m_edges' = m_edges \cup {edge, reverse(edge)}
    /\ m_vertices' = Max2(Max2(m_vertices, edge[1] + 1), edge[2] + 1)
    /\ g_inserted' = g_inserted \cup {edge}
    /\ g_ret' = [op |-> "insert_edge"]

\* a caller asks for degree(vertex); the graph is const in the call
QueryDegree(vertex) ==
    /\ g_ret' = [op |-> "degree", vertex |-> vertex, value |-> degree(vertex)]
    /\ UNCHANGED <<m_edges, m_vertices, g_inserted>>

\* a caller asks for adjacents(vertex); the graph is const in the call
QueryAdjacents(vertex) ==
    /\ g_ret' = [op |-> "adjacents", vertex |-> vertex, value |-> adjacents(vertex)]
    /\ UNCHANGED <<m_edges, m_vertices, g_inserted>>

Vertices == 0..MaxVertex

\* the ids a query may name: one more than any id an edge can hold
QueryVertices == 0..(MaxVertex + 1)

NextGraph ==
    \/ \E u \in Vertices, v \in Vertices : insert_edge(<<u, v>>) /\ UNCHANGED <<sweep_vars, calc_vars, label_vars, convert_vars>>
    \/ \E v \in QueryVertices : QueryDegree(v) /\ UNCHANGED <<sweep_vars, calc_vars, label_vars, convert_vars>>
    \/ \E v \in QueryVertices : QueryAdjacents(v) /\ UNCHANGED <<sweep_vars, calc_vars, label_vars, convert_vars>>

SweepIdle ==
    /\ segments = <<>>
    /\ ring = <<>>
    /\ eq = {}
    /\ m_segments = EmptyMap
    /\ m_tree = <<>>
    /\ sh_pc = "idle"
    /\ sh_result = "none"
    /\ sh_past_end = FALSE
    /\ sh_tests = {}
    /\ sh_prev = [op |-> "none"]

InitGraph == SweepIdle /\ GraphStart /\ CalcIdle /\ LabelIdle /\ ConvertIdle

SpecGraph == InitGraph /\ [][NextGraph]_vars

(***************************************************************************)
(* Exact fractions for the floating-point values of the calculator: a      *)
(* value is <<numerator, denominator>> in lowest terms, denominator > 0.   *)
(* Within the bounds of the model the double results of get_score and of   *)
(* score * max_armies truncate to the same integers as the exact values.   *)
(***************************************************************************)
RECURSIVE GCD(_, _)
GCD(a, b) == IF b = 0 THEN a ELSE GCD(b, a % b)

Abs(a) == IF a < 0 THEN -a ELSE a

Rat(n, d) ==
    LET g == GCD(Abs(n), Abs(d))
        sgn == IF d < 0 THEN -1 ELSE 1
    IN  <<(sgn * n) \div g, (sgn * d) \div g>>

FromInt(k) == <<k, 1>>

RAdd(a, b) == Rat(a[1] * b[2] + b[1] * a[2], a[2] * b[2])

RSub(a, b) == Rat(a[1] * b[2] - b[1] * a[2], a[2] * b[2])

RMul(a, b) == Rat(a[1] * b[1], a[2] * b[2])

RDiv(a, b) == Rat(a[1] * b[2], a[2] * b[1])

RLt(a, b) == a[1] * b[2] < b[1] * a[2]

RLe(a, b) == a[1] * b[2] <= b[1] * a[2]

\* std::min(a, b): b when b < a, else a
RMin(a, b) == IF RLt(b, a) THEN b ELSE a

\* conversion of a floating value to int: the fraction is discarded
Truncate(a) == IF a[1] >= 0 THEN a[1] \div a[2] ELSE -((-a[1]) \div a[2])

(***************************************************************************)
(* Balance calculator (ArmyCalculator).                                    *)
(***************************************************************************)
TERRITORY_WEIGHT == <<1, 2>>
OUTER_WEIGHT == <<1, 2>>

Range(sq) == {sq[k] : k \in 1..Len(sq)}

\* the elements of a std::set of ids in iteration order
SortedSeq(S) == [k \in 1..Cardinality(S) |-> CHOOSE x \in S : Cardinality({y \in S : y < x}) = k - 1]

\* the local set children of the loop body
children(bonus) == bonus.children

\* the local set adjacents of the loop body: every neighbor of every child
adjacent_set(bonus) == UNION {Range(adjacents(child)) : child \in bonus.children}

\* an outer_adjacents that keeps the children among the adjacents
outer_adjacents_all(bonus) == SortedSeq(adjacent_set(bonus))

\* std::set_difference(adjacents, children) into the vector outer_adjacents
outer_adjacents(bonus) == SortedSeq(adjacent_set(bonus) \ children(bonus))

\* a score that leaves the outer connections out
get_score_sizeonly(territories, connections) ==
    RMul(TERRITORY_WEIGHT, FromInt(territories \div Len(m_territories)))

\* territories / m_territories.size() divides two size_t values
get_score(territories, connections) ==
    RAdd(RMul(TERRITORY_WEIGHT, FromInt(territories \div Len(m_territories))),
         RMul(OUTER_WEIGHT,
              RMin(RDiv(RMul(<<1, 2>>, FromInt(connections)), FromInt(territories)),
                   FromInt(1))))

\* std::round<int>(x): the overload for integral arguments, x is converted
\* to int before it is rounded
round_int(x) == Truncate(x)

\* an army value that takes the smaller of the two
bonus_armies_min(score, min_armies, max_armies) ==
    LET v == round_int(RMul(score, FromInt(max_armies)))
    IN  IF v <= min_armies THEN v ELSE min_armies

\* std::max((army_type) std::round<int>(score * max_armies), min_armies)
bonus_armies(score, min_armies, max_armies) ==
    Max2(round_int(RMul(score, FromInt(max_armies))), min_armies)

\* the locals outer_adjacents and score of the loop body for one bonus
loop_body(bonus) ==
    LET oa == outer_adjacents(bonus)
    IN  [outer_adjacents |-> oa, score |-> get_score(Cardinality(children(bonus)), Len(oa))]

\* an assignment that carries the largest value over to the next bonus
assign_armies_running(locals, min_range, max_range) ==
    \E min_armies \in min_range, max_armies \in max_range :
        /\ c_locals' = locals
        /\ m_bonuses' = [k \in 1..Len(m_bonuses) |->
                           [m_bonuses[k] EXCEPT
                              !.armies = LET written == {bonus_armies(locals[j].score, min_armies, max_armies) :
                                                          j \in 1..k}
                                         IN  CHOOSE x \in written : \A y \in written : y <= x]]
        /\ c_args' = [op |-> "calculate_armies",
                      min_armies |-> min_armies, max_armies |-> max_armies]

\* the assignment of the loop body for every bonus, given the locals of
\* every bonus, with any arguments from the two ranges
assign_armies(locals, min_range, max_range) ==
    \E min_armies \in min_range, max_armies \in max_range :
        /\ c_locals' = locals
        /\ m_bonuses' = [k \in 1..Len(m_bonuses) |->
                           [m_bonuses[k] EXCEPT
                              !.armies = bonus_armies(locals[k].score, min_armies, max_armies)]]
        /\ c_args' = [op |-> "calculate_armies",
                      min_armies |-> min_armies, max_armies |-> max_armies]

\* the whole call, the loop over m_bonuses
calculate_armies(min_range, max_range) ==
    /\ c_pc = "ready"
    /\ assign_armies([k \in 1..Len(m_bonuses) |-> loop_body(m_bonuses[k])], min_range, max_range)
    /\ c_pc' = "done"
    /\ UNCHANGED <<m_territories, m_super_bonuses>>

Armies == 0..MaxArmies

NextCalc == calculate_armies(Armies, Armies) /\ UNCHANGED <<sweep_vars, graph_vars, label_vars, convert_vars>>

\* the edge set insert_edge builds from the unordered pairs E
Inserted(E) == E \cup {reverse(e) : e \in E}

\* the graphs over the territories 0..n-1: any set of pairs of distinct territories
Neighborhoods(n) == {Inserted(E) : E \in SUBSET {e \in (0..(n - 1)) \X (0..(n - 1)) : e[1] < e[2]}}

\* a bonus has at least one child territory
Bonuses(n) == {[children |-> K, armies |-> 0] : K \in (SUBSET (0..(n - 1))) \ {{}}}

CalcStart ==
    /\ m_vertices = IF m_edges = {} THEN 0 ELSE 1 + (CHOOSE v \in {e[1] : e \in m_edges} : \A w \in {e[1] : e \in m_edges} : w <= v)
    /\ g_inserted = m_edges
    /\ g_ret = [op |-> "none"]
    /\ m_super_bonuses = <<>>
    /\ c_pc = "ready"
    /\ c_args = [op |-> "none"]
    /\ c_locals = <<>>

\* any map of at most MaxTerritories territories with two bonuses
InitCalc ==
    /\ SweepIdle
    /\ LabelIdle
    /\ ConvertIdle
    /\ m_territories \in {[k \in 1..n |-> k - 1] : n \in 1..MaxTerritories}
    /\ m_edges \in Neighborhoods(Len(m_territories))
    /\ m_bonuses \in [1..2 -> Bonuses(Len(m_territories))]
    /\ CalcStart

SpecCalc == InitCalc /\ [][NextCalc]_vars

\* the map of the end-to-end scenario: a ring of five territories with one chord
ScenarioTerritories == <<0, 1, 2, 3, 4>>
ScenarioPairs == {<<0, 1>>, <<1, 2>>, <<2, 3>>, <<3, 4>>, <<4, 0>>, <<0, 2>>}
ScenarioEdges == Inserted(ScenarioPairs)

\* the scenario map, or the map with only some of its edges inserted, with
\* any one or two bonuses
InitScenario ==
    /\ SweepIdle
    /\ LabelIdle
    /\ ConvertIdle
    /\ m_territories = ScenarioTerritories
    /\ m_edges \in {Inserted(E) : E \in SUBSET ScenarioPairs}
    /\ m_bonuses \in ListsUpTo(Bonuses(Len(m_territories)), 2) \ {<<>>}
    /\ CalcStart

\* the scenario calls calculate_armies with min 1 and max 10
NextScenario == calculate_armies({1}, {10}) /\ UNCHANGED <<sweep_vars, graph_vars, label_vars, convert_vars>>

SpecScenario == InitScenario /\ [][NextScenario]_vars

\* the army value a bonus holds from an earlier calculation: one that no
\* call of the model writes, and another for every bonus
StaleArmies(k) == MaxArmies + k

\* a super-bonus groups bonuses: its children are positions in m_bonuses
SuperBonuses == <<[children |-> {1, 2}, armies |-> StaleArmies(3)]>>

\* any map of at most MaxTerritories territories with two bonuses that hold
\* earlier army values, and a super-bonus over the two
InitFrame ==
    /\ SweepIdle
    /\ LabelIdle
    /\ ConvertIdle
    /\ m_territories \in {[k \in 1..n |-> k - 1] : n \in 1..MaxTerritories}
    /\ m_edges \in Neighborhoods(Len(m_territories))
    /\ \E chosen \in [1..2 -> Bonuses(Len(m_territories))] :
          m_bonuses = [k \in 1..2 |-> [chosen[k] EXCEPT !.armies = StaleArmies(k)]]
    /\ m_super_bonuses = SuperBonuses
    /\ m_vertices = IF m_edges = {} THEN 0 ELSE 1 + (CHOOSE v \in {e[1] : e \in m_edges} : \A w \in {e[1] : e \in m_edges} : w <= v)
    /\ g_inserted = m_edges
    /\ g_ret = [op |-> "none"]
    /\ c_pc = "ready"
    /\ c_args = [op |-> "none"]
    /\ c_locals = <<>>

\* calculate_armies with the smallest bounds and with the largest
NextFrame ==
    calculate_armies({0, 1}, {MaxArmies}) /\ UNCHANGED <<sweep_vars, graph_vars, label_vars, convert_vars>>

SpecFrame == InitFrame /\ [][NextFrame]_vars

(***************************************************************************)
(* Label engine (Cell, get_centroid, polylabel).  Coordinates, half-widths *)
(* and distances are exact fractions; a value with an irrational part is a *)
(* pair <<a, b>> of fractions that stands for a + b * sqrt(2).             *)
(***************************************************************************)
Zero == FromInt(0)

RSign(a) == IF a[1] > 0 THEN 1 ELSE IF a[1] < 0 THEN -1 ELSE 0

RAbs(a) == <<Abs(a[1]), a[2]>>

RECURSIVE RSumOf(_)
RSumOf(sq) == IF sq = <<>> THEN Zero ELSE RAdd(Head(sq), RSumOf(Tail(sq)))

RMinOf(S) == CHOOSE a \in S : \A b \in S : RLe(a, b)

RMaxOf(S) == CHOOSE a \in S : \A b \in S : RLe(b, a)

SQRT_TWO == <<Zero, FromInt(1)>>

\* h * r for a fraction h
RootScale(h, r) == <<RMul(h, r[1]), RMul(h, r[2])>>

\* d + r for a fraction d
RootAdd(d, r) == <<RAdd(d, r[1]), r[2]>>

\* a + b * sqrt(2) <= 0, decided on the squares
RootNonPos(a, b) ==
    IF a[1] <= 0 /\ b[1] <= 0 THEN TRUE
    ELSE IF a[1] >= 0 /\ b[1] >= 0 THEN FALSE
    ELSE LET r == RDiv(a, b)
         IN  IF a[1] > 0 THEN r[1] * r[1] <= 2 * r[2] * r[2]
                         ELSE 2 * r[2] * r[2] <= r[1] * r[1]

\* m1 < m2
RootLt(m1, m2) == ~RootNonPos(RSub(m2[1], m1[1]), RSub(m2[2], m1[2]))

\* a precision test that never holds
RootWithin_never(m, d, eps) == FALSE

\* m - d <= eps for fractions d and eps
RootWithin(m, d, eps) == RootNonPos(RSub(RSub(m[1], d), eps), m[2])

\* conversion of a floating value to the coordinate type T
ToT(v) == IF pl_T = "int" THEN FromInt(Truncate(v)) ELSE v

\* a / b in the coordinate type T
TDiv(a, b) == ToT(RDiv(a, b))

Point(x, y) == <<x, y>>

Cross(a, b) == RSub(RMul(PX(a), PY(b)), RMul(PX(b), PY(a)))

Succ(outer, i) == IF i = Len(outer) THEN 1 ELSE i + 1

Pred(outer, i) == IF i = 1 THEN Len(outer) ELSE i - 1

\* 1 for a counter-clockwise ring, -1 for a clockwise ring, 0 for a ring
\* without area
Orientation(outer) ==
    RSign(RSumOf([i \in 1..Len(outer) |-> Cross(outer[i], outer[Succ(outer, i)])]))

ISqrt(n) == CHOOSE k \in 0..n : k * k = n

\* length of the edge vector (dx, dy); the rings of the model have edges
\* of rational length
EdgeLength(dx, dy) ==
    IF dy = Zero THEN RAbs(dx)
    ELSE IF dx = Zero THEN RAbs(dy)
    ELSE LET q == RAdd(RMul(dx, dx), RMul(dy, dy))
         IN  <<ISqrt(q[1]), ISqrt(q[2])>>

\* distance of point to the line of the ring edge a -> b, positive on the
\* interior side of the edge
EdgeDistance(point, a, b, orientation) ==
    LET dx == RSub(PX(b), PX(a))
        dy == RSub(PY(b), PY(a))
        cr == RSub(RMul(dx, RSub(PY(point), PY(a))), RMul(dy, RSub(PX(point), PX(a))))
    IN  RDiv(RMul(FromInt(orientation), cr), EdgeLength(dx, dy))

\* signed distance of point to the boundary of a convex ring, positive
\* inside: exact for the points inside the ring and for the points outside
\* whose nearest boundary point is interior to an edge
distance_to_polygon(point, poly) ==
    LET outer == poly.outer
        orientation == Orientation(outer)
    IN  IF orientation = 0 THEN Zero
        ELSE RMinOf({EdgeDistance(point, outer[i], outer[Succ(outer, i)], orientation) :
                       i \in 1..Len(outer)})

\* the minimal bounding box of the outer ring
envelope(poly) ==
    LET xs == {PX(poly.outer[i]) : i \in 1..Len(poly.outer)}
        ys == {PY(poly.outer[i]) : i \in 1..Len(poly.outer)}
    IN  [min |-> Point(RMinOf(xs), RMinOf(ys)), max |-> Point(RMaxOf(xs), RMaxOf(ys))]

width(rectangle) == RSub(PX(rectangle.max), PX(rectangle.min))

height(rectangle) == RSub(PY(rectangle.max), PY(rectangle.min))

\* the center point of a rectangle, in the coordinate type
center(rectangle) ==
    Point(TDiv(RAdd(PX(rectangle.min), PX(rectangle.max)), FromInt(2)),
          TDiv(RAdd(PY(rectangle.min), PY(rectangle.max)), FromInt(2)))

\* the constructor of Cell
Cell(c, half, poly) ==
    LET d == distance_to_polygon(c, poly)
    IN  [center |-> c, half |-> half, distance |-> d,
         max |-> RootAdd(d, RootScale(half, SQRT_TWO))]

\* the loop of get_centroid from index i on; acc holds center and area
RECURSIVE CentroidLoop(_, _, _)
CentroidLoop(outer, i, acc) ==
    IF i > Len(outer) THEN acc
    ELSE LET left == outer[i]
             right == outer[Pred(outer, i)]
             f == Cross(left, right)
         IN  CentroidLoop(outer, i + 1,
                 [x |-> RAdd(acc.x, RMul(RAdd(PX(left), PX(right)), f)),
                  y |-> RAdd(acc.y, RMul(RAdd(PY(left), PY(right)), f)),
                  area |-> RAdd(acc.area, RMul(f, FromInt(3)))])

\* a get_centroid that divides whatever the sign of the area
get_centroid_unsigned ==
    LET acc == CentroidLoop(polygon.outer, 1, [x |-> Zero, y |-> Zero, area |-> Zero])
    IN  IF acc.area # Zero
        THEN Cell(Point(TDiv(acc.x, acc.area), TDiv(acc.y, acc.area)), Zero, polygon)
        ELSE Cell(polygon.outer[1], Zero, polygon)

get_centroid ==
    LET acc == CentroidLoop(polygon.outer, 1, [x |-> Zero, y |-> Zero, area |-> Zero])
    IN  IF RLt(Zero, acc.area)
        THEN Cell(Point(TDiv(acc.x, acc.area), TDiv(acc.y, acc.area)), Zero, polygon)
        ELSE Cell(polygon.outer[1], Zero, polygon)

\* the comparator of the priority queue
compare(a, b) == RootLt(a.max, b.max)

\* the cells std::priority_queue::top may return: no queued cell is greater
TopCells == {c \in BagToSet(queue) : \A d \in BagToSet(queue) : ~compare(c, d)}

\* a candidate test that always takes the cell
candidate_last(cell, best) == cell

\* a candidate test that keeps the smaller distance
candidate_min(cell, best) == IF RLt(cell.distance, best.distance) THEN cell ELSE best

\* a candidate test that never takes the cell
candidate_never(cell, best) == best

\* if (cell.distance > best_cell.distance) best_cell = cell
candidate(cell, best) == IF RLt(best.distance, cell.distance) THEN cell ELSE best

\* a cell size that takes the longer side
cell_size_longer(rectangle) ==
    IF RLt(width(rectangle), height(rectangle)) THEN height(rectangle) ELSE width(rectangle)

cell_size(rectangle) == RMin(width(rectangle), height(rectangle))

\* the positions from, from + step, ... that are less than to
Steps(from, to, step) ==
    {x \in {RAdd(from, RMul(FromInt(k), step)) : k \in 0..Truncate(RDiv(RSub(to, from), step))} :
        RLt(x, to)}

\* polylabel up to its loop: the early return of a degenerate envelope, or
\* the initial cells and the two first guesses
PolylabelStart ==
    /\ pl_pc = "start"
    /\ LET polygon_envelope == envelope(polygon)
           size0 == cell_size(polygon_envelope)
       IN  IF size0 = Zero
           THEN /\ pl_result' = [op |-> "return", point |-> polygon_envelope.min, distance |-> Zero]
                /\ pl_pc' = "done"
                /\ UNCHANGED <<queue, best_cell, pl_centroid, pl_created>>
           ELSE LET half == TDiv(size0, FromInt(2))
                    cells == {Cell(Point(RAdd(x, half), RAdd(y, half)), half, polygon) :
                                x \in Steps(PX(polygon_envelope.min), PX(polygon_envelope.max), size0),
                                y \in Steps(PY(polygon_envelope.min), PY(polygon_envelope.max), size0)}
                    centroid == get_centroid
                    envelope_center_cell == Cell(center(polygon_envelope), Zero, polygon)
                IN  /\ queue' = SetToBag(cells)
                    /\ pl_created' = cells
                    /\ pl_centroid' = centroid
                    /\ best_cell' = candidate(envelope_center_cell, centroid)
                    /\ pl_pc' = "loop"
                    /\ UNCHANGED pl_result
    /\ UNCHANGED <<polygon, pl_T, precision, pl_split, pl_prev, pl_popped>>

\* the four cells a cell is split into, in the order they are pushed
Children(cell) ==
    LET half == ToT(RDiv(cell.half, FromInt(2)))
        cx == PX(cell.center)
        cy == PY(cell.center)
    IN  <<Cell(Point(RAdd(cx, half), RAdd(cy, half)), half, polygon),
          Cell(Point(RAdd(cx, half), RSub(cy, half)), half, polygon),
          Cell(Point(RSub(cx, half), RAdd(cy, half)), half, polygon),
          Cell(Point(RSub(cx, half), RSub(cy, half)), half, polygon)>>

\* one iteration of the loop
PopCell ==
    /\ pl_pc = "loop"
    /\ queue # EmptyBag
    /\ \E cell \in TopCells :
         LET best == candidate(cell, best_cell)
             rest == queue (-) SetToBag({cell})
         IN  /\ best_cell' = best
             /\ pl_popped' = pl_popped \cup {cell}
             /\ IF RootWithin(cell.max, best.distance, precision)
                THEN /\ queue' = rest
                     /\ UNCHANGED <<pl_created, pl_split>>
                ELSE LET pushed == Children(cell)
                     IN  /\ queue' = rest (+) SetToBag({pushed[1]}) (+) SetToBag({pushed[2]})
                                          (+) SetToBag({pushed[3]}) (+) SetToBag({pushed[4]})
                         /\ pl_created' = pl_created \cup Range(pushed)
                         /\ pl_split' = pl_split \cup {cell}
    /\ UNCHANGED <<polygon, pl_T, precision, pl_pc, pl_result, pl_centroid, pl_prev>>

\* the queue is empty: the best cell is returned
PolylabelReturn ==
    /\ pl_pc = "loop"
    /\ queue = EmptyBag
    /\ pl_result' = [op |-> "return", point |-> best_cell.center, distance |-> best_cell.distance]
    /\ pl_pc' = "done"
    /\ UNCHANGED <<polygon, pl_T, precision, queue, best_cell, pl_centroid, pl_created,
                   pl_split, pl_prev, pl_popped>>

\* the precisions of the model: one below 1/2, the default 1 of polylabel,
\* and 2
Precisions == {<<9, 20>>, <<1, 1>>, <<2, 1>>}

\* the caller repeats the call on the same polygon with a coarser precision
CallAgain ==
    /\ pl_pc = "done"
    /\ pl_prev.op = "none"
    /\ \E eps \in Precisions : RLt(precision, eps) /\ precision' = eps
    /\ pl_prev' = [op |-> "return", precision |-> precision,
                   point |-> pl_result.point, distance |-> pl_result.distance]
    /\ queue' = EmptyBag
    /\ best_cell' = NoCell
    /\ pl_result' = [op |-> "none"]
    /\ pl_centroid' = NoCell
    /\ pl_created' = {}
    /\ pl_split' = {}
    /\ pl_popped' = {}
    /\ pl_pc' = "start"
    /\ UNCHANGED <<polygon, pl_T>>

NextLabel ==
    \/ PolylabelStart /\ UNCHANGED <<sweep_vars, graph_vars, calc_vars, convert_vars>>
    \/ PopCell /\ UNCHANGED <<sweep_vars, graph_vars, calc_vars, convert_vars>>
    \/ PolylabelReturn /\ UNCHANGED <<sweep_vars, graph_vars, calc_vars, convert_vars>>
    \/ CallAgain /\ UNCHANGED <<sweep_vars, graph_vars, calc_vars, convert_vars>>

\* the ring sq read from its k-th point on
Rotate(sq, k) == [i \in 1..Len(sq) |-> sq[((i + k - 2) % Len(sq)) + 1]]

Reversed(sq) == [i \in 1..Len(sq) |-> sq[Len(sq) + 1 - i]]

\* every way to write down the closed ring sq
RingsOf(sq) == UNION {{Rotate(sq, k), Reversed(Rotate(sq, k))} : k \in 1..Len(sq)}

\* the corners of the axis-aligned rectangle with minimum corner (x0, y0)
Rectangle(x0, y0, w, h) ==
    <<Point(x0, y0), Point(RAdd(x0, w), y0), Point(RAdd(x0, w), RAdd(y0, h)), Point(x0, RAdd(y0, h))>>

\* squares of side up to MaxSide and rectangles of zero width or height,
\* with the minimum corner or the centre at the origin
Rectangles ==
    UNION {{Rectangle(Zero, Zero, FromInt(d[1]), FromInt(d[2])),
            Rectangle(Rat(-d[1], 2), Rat(-d[2], 2), FromInt(d[1]), FromInt(d[2]))} :
              d \in {e \in (0..MaxSide) \X (0..MaxSide) : e[1] = e[2] \/ e[1] = 0 \/ e[2] = 0}}

\* the right triangle with legs 4 and 3, whose inscribed circle has centre
\* (1, 1) and radius 1
Triangle == <<Point(Zero, Zero), Point(FromInt(4), Zero), Point(Zero, FromInt(3))>>

Polygons == {[outer |-> r] : r \in UNION {RingsOf(sq) : sq \in Rectangles \cup {Triangle}}}

\* every coordinate of the ring is a value of the coordinate type t
Representable(poly, t) ==
    t = "int" => \A i \in 1..Len(poly.outer) : PX(poly.outer[i])[2] = 1 /\ PY(poly.outer[i])[2] = 1

InitLabel ==
    /\ SweepIdle
    /\ GraphStart
    /\ CalcIdle
    /\ ConvertIdle
    /\ pl_T \in {"int", "double"}
    /\ polygon \in {poly \in Polygons : Representable(poly, pl_T)}
    /\ precision \in Precisions
    /\ queue = EmptyBag
    /\ best_cell = NoCell
    /\ pl_pc = "start"
    /\ pl_result = [op |-> "none"]
    /\ pl_centroid = NoCell
    /\ pl_created = {}
    /\ pl_split = {}
    /\ pl_prev = [op |-> "none"]
    /\ pl_popped = {}

SpecLabel == InitLabel /\ [][NextLabel]_vars

\* the steps of polylabel, with the other components left alone
StartStep == PolylabelStart /\ UNCHANGED <<sweep_vars, graph_vars, calc_vars, convert_vars>>

IterationStep == PopCell /\ UNCHANGED <<sweep_vars, graph_vars, calc_vars, convert_vars>>

ReturnStep == PolylabelReturn /\ UNCHANGED <<sweep_vars, graph_vars, calc_vars, convert_vars>>

\* polylabel runs to its return: it is straight-line code and a loop, and no
\* step of it waits for anything.  Weak fairness of the first two steps is
\* written with their enabling conditions spelled out: StartStep is enabled
\* exactly when pl_pc = "start", and IterationStep exactly when the loop is
\* entered with a non-empty queue (every iteration changes the queue).
SpecLabelLive ==
    /\ SpecLabel
    /\ ([]<>(pl_pc # "start") \/ []<><<StartStep>>_vars)
    /\ ([]<>(~(pl_pc = "loop" /\ queue # EmptyBag)) \/ []<><<IterationStep>>_vars)
    /\ WF_vars(ReturnStep)

(***************************************************************************)
(* Convert handler (create_node, create_way).  A buffer is a sequence:     *)
(* push_back appends and at(i) reads the element at the 0-based index i.   *)
(***************************************************************************)
\* the OSM ids of the model: sparse, and a negative one among them
OsmIdAt(k) == 100 * k - 150

OsmIds == {OsmIdAt(k) : k \in 1..MaxOsm}

\* an osmium::NodeRef: the id and the location of a node
NodeRef(ref) == [ref |-> ref, lon |-> ref + 1, lat |-> ref - 1]

NodeRefs == {NodeRef(ref) : ref \in OsmIds}

\* the k-th osmium::Way of the input: its id and its 2 * (k - 1) node
\* references, which start at the k-th node and go round the nodes; the
\* first way has no node, the third is a closed ring
OsmWay(k) ==
    [id |-> OsmIdAt(k),
     nodes |-> [j \in 1..(2 * (k - 1)) |-> NodeRef(OsmIdAt(((k + j - 2) % MaxOsm) + 1))]]

OsmWays == {OsmWay(k) : k \in 1..MaxOsm}

\* Buffer::at(index)
BufferAt(buffer, index) ==
    IF index < Len(buffer) THEN buffer[index + 1] ELSE [error |-> "out_of_range"]

\* std::unordered_map::size
MapSize(m) == Cardinality(DOMAIN m)

\* a create_node that takes the next id from the length of the map plus one
create_node_skip(nids, nodes, osm_node) ==
    IF osm_node.ref \in DOMAIN nids
    THEN [nids |-> nids, nodes |-> nodes, ret |-> BufferAt(nodes, nids[osm_node.ref])]
    ELSE LET mapped_id == MapSize(nids) + 1
             pushed == Append(nodes, [id |-> mapped_id, lon |-> osm_node.lon, lat |-> osm_node.lat])
         IN  [nids |-> MapPut(nids, osm_node.ref, mapped_id), nodes |-> pushed,
              ret |-> BufferAt(pushed, mapped_id)]

\* create_node on the id map nids and the buffer nodes: the two after the
\* call and the node returned
create_node(nids, nodes, osm_node) ==
    IF osm_node.ref \in DOMAIN nids
    THEN [nids |-> nids, nodes |-> nodes, ret |-> BufferAt(nodes, nids[osm_node.ref])]
    ELSE LET mapped_id == MapSize(nids)
             pushed == Append(nodes, [id |-> mapped_id, lon |-> osm_node.lon, lat |-> osm_node.lat])
         IN  [nids |-> MapPut(nids, osm_node.ref, mapped_id), nodes |-> pushed,
              ret |-> BufferAt(pushed, mapped_id)]

\* the loop of create_way over osm_way.nodes() from position k on; acc
\* holds the node map, the node buffer and the way under construction
RECURSIVE WayLoop(_, _, _)
WayLoop(osm_nodes, k, acc) ==
    IF k > Len(osm_nodes) THEN acc
    ELSE LET r == create_node(acc.nids, acc.nodes, osm_nodes[k])
         IN  WayLoop(osm_nodes, k + 1,
                 [nids |-> r.nids, nodes |-> r.nodes,
                  way |-> [acc.way EXCEPT !.nodes = Append(@, r.ret.id)]])

\* create_way on the maps and buffers: their values after the call and the
\* way returned
create_way(nids, nodes, wids, ways, osm_way) ==
    IF osm_way.id \in DOMAIN wids
    THEN [nids |-> nids, nodes |-> nodes, wids |-> wids, ways |-> ways,
          ret |-> BufferAt(ways, wids[osm_way.id])]
    ELSE LET mapped_id == MapSize(wids)
             pushed == Append(ways, [id |-> mapped_id, nodes |-> <<>>])
             acc == WayLoop(osm_way.nodes, 1,
                        [nids |-> nids, nodes |-> nodes, way |-> BufferAt(pushed, mapped_id)])
         IN  [nids |-> acc.nids, nodes |-> acc.nodes,
              wids |-> MapPut(wids, osm_way.id, mapped_id),
              ways |-> [pushed EXCEPT ![mapped_id + 1] = acc.way],
              ret |-> acc.way]

\* a call of create_node
CallCreateNode(osm_node) ==
    LET r == create_node(m_nids, m_nodes, osm_node)
    IN  /\ m_nids' = r.nids
        /\ m_nodes' = r.nodes
        /\ ch_ret' = [op |-> "create_node", ref |-> osm_node.ref, value |-> r.ret]
        /\ UNCHANGED <<m_ways, m_relations, m_wids, m_rids>>

\* a call of create_way
CallCreateWay(osm_way) ==
    LET r == create_way(m_nids, m_nodes, m_wids, m_ways, osm_way)
    IN  /\ m_nids' = r.nids
        /\ m_nodes' = r.nodes
        /\ m_wids' = r.wids
        /\ m_ways' = r.ways
        /\ ch_ret' = [op |-> "create_way", ref |-> osm_way.id, value |-> r.ret]
        /\ UNCHANGED <<m_relations, m_rids>>

NextConvert ==
    \/ \E osm_node \in NodeRefs :
         CallCreateNode(osm_node) /\ UNCHANGED <<sweep_vars, graph_vars, calc_vars, label_vars>>
    \/ \E osm_way \in OsmWays :
         CallCreateWay(osm_way) /\ UNCHANGED <<sweep_vars, graph_vars, calc_vars, label_vars>>

\* the handler after its constructor: empty buffers and maps
InitConvert == SweepIdle /\ GraphStart /\ CalcIdle /\ LabelIdle /\ ConvertIdle

SpecConvert == InitConvert /\ [][NextConvert]_vars

(***************************************************************************)
(* Convert handler (complete_relation).                                    *)
(***************************************************************************)
\* a role pointer that is null
NullRole == "nullptr"

\* the k-th osmium::Relation of the input: its id, its tags and its
\* members.  The members are its own way as outer, a way with the invalid
\* reference 0, a node, the next way as inner (odd k) or as subarea (even
\* k), a member without role and the first way as outer
OsmRelation(k) ==
    [id |-> OsmIdAt(k),
     tags |-> [name |-> k, type |-> "boundary", admin_level |-> 2 * k],
     members |->
        <<[ref |-> OsmIdAt(k), type |-> "way", role |-> "outer"],
          [ref |-> 0, type |-> "way", role |-> "inner"],
          [ref |-> OsmIdAt(1), type |-> "node", role |-> "outer"],
          [ref |-> OsmIdAt((k % MaxOsm) + 1), type |-> "way",
           role |-> IF k % 2 = 1 THEN "inner" ELSE "subarea"],
          [ref |-> OsmIdAt(k), type |-> "way", role |-> NullRole],
          [ref |-> OsmIdAt(1), type |-> "way", role |-> "outer"]>>]

OsmRelations == {OsmRelation(k) : k \in 1..MaxOsm}

\* get_member_way(ref): the way of the input with this id
get_member_way(ref) == CHOOSE osm_way \in OsmWays : osm_way.id = ref

\* the loop of complete_relation over osm_relation.members() from position
\* k on; acc holds the node and way maps and buffers and the relation
\* under construction
RECURSIVE MemberLoop(_, _, _)
MemberLoop(osm_members, k, acc) ==
    IF k > Len(osm_members) THEN acc
    ELSE LET osm_member == osm_members[k]
         IN  IF osm_member.ref # 0 /\ osm_member.type = "way" /\ osm_member.role # NullRole
             THEN LET r == create_way(acc.nids, acc.nodes, acc.wids, acc.ways,
                                      get_member_way(osm_member.ref))
                      role == osm_member.role
                  IN  MemberLoop(osm_members, k + 1,
                          [nids |-> r.nids, nodes |-> r.nodes, wids |-> r.wids, ways |-> r.ways,
                           relation |->
                              IF role = "outer" \/ role = "inner"
                              THEN [acc.relation EXCEPT
                                      !.members = Append(@, [ref |-> r.ret.id, type |-> "WAY",
                                                             role |-> role])]
                              ELSE acc.relation])
             ELSE MemberLoop(osm_members, k + 1, acc)

\* complete_relation; the model follows at most MaxRelations calls
complete_relation(osm_relation) ==
    LET mapped_id == MapSize(m_rids)
        relation == [id |-> mapped_id,
                     tags |-> [name |-> osm_relation.tags.name,
                               type |-> osm_relation.tags.type,
                               admin_level |-> osm_relation.tags.admin_level],
                     members |-> <<>>]
        acc == MemberLoop(osm_relation.members, 1,
                   [nids |-> m_nids, nodes |-> m_nodes, wids |-> m_wids, ways |-> m_ways,
                    relation |-> relation])
    IN  /\ Len(m_relations) < MaxRelations
        /\ m_rids' = MapPut(m_rids, osm_relation.id, mapped_id)
        /\ m_nids' = acc.nids
        /\ m_nodes' = acc.nodes
        /\ m_wids' = acc.wids
        /\ m_ways' = acc.ways
        /\ m_relations' = Append(m_relations, acc.relation)
        /\ ch_ret' = [op |-> "complete_relation", ref |-> osm_relation.id]

\* the relations of the input are completed in any order, and a relation
\* may be completed again
NextRelation ==
    \E osm_relation \in OsmRelations :
        complete_relation(osm_relation) /\ UNCHANGED <<sweep_vars, graph_vars, calc_vars, label_vars>>

SpecRelation == InitConvert /\ [][NextRelation]_vars

(***************************************************************************)
(* Properties of the sweep.                                                *)
(***************************************************************************)
\* two input segments share no endpoint and the endpoints of each lie on
\* opposite sides of, or on, the line of the other
Crosses(s, t) ==
    /\ {s.first, s.last} \cap {t.first, t.last} = {}
    /\ Orient(s.first, s.last, t.first) * Orient(s.first, s.last, t.last) <= 0
    /\ Orient(t.first, t.last, s.first) * Orient(t.first, t.last, s.last) <= 0

HasCrossing(segs) ==
    \E i \in 1..Len(segs), j \in 1..Len(segs) : i < j /\ Crosses(segs[i], segs[j])

\* C1: shamos_hoey returns true if and only if the list contains two segments
\* that share no endpoint and cross each other, and false when no such pair
\* exists.
C1_ReturnsCrossing ==
    /\ sh_result = "true" => HasCrossing(segments)
    /\ sh_result = "false" => ~HasCrossing(segments)

\* C2: shamos_hoey is total: for every segment list, zero-length and repeated
\* segments included, it finishes with a boolean and never looks up an index
\* that is absent from the index map nor steps past the ends of the active set.
C2_TotalDecision ==
    /\ sh_result # "out_of_range"
    /\ ~sh_past_end
    /\ sh_pc = "done" => sh_result \in {"true", "false"}

\* C3: for the four boundary segments of a bowtie, in every order of the
\* input list, shamos_hoey returns true.
C3_BowtieTrue ==
    (sh_pc = "done" /\ ring # <<>> /\ IsBowtie(ring)) => sh_result = "true"

\* C4: for the four boundary segments of a simple convex quadrilateral
\* shamos_hoey returns false.
C4_ConvexFalse ==
    (sh_pc = "done" /\ ring # <<>> /\ IsConvexQuad(ring)) => sh_result = "false"

\* the two input segments of the two-segment sweep, normalized
PairFirst == convert(0, SegAt(segments, 0))
PairSecond == convert(1, SegAt(segments, 1))

\* C5: intersect returns false whenever the two normalized segments have an
\* endpoint in common, whatever the position of their other endpoints; hence
\* two segments that share an endpoint are never reported as a crossing.
C5_SharedEndpointNoCrossing ==
    /\ \A t \in sh_tests : SharePoint(t.s1, t.s2) => ~t.result
    /\ (Len(segments) = 2 /\ SharePoint(PairFirst, PairSecond)) => sh_result # "true"

\* C5 witness: intersect was called on two segments with a common endpoint
\* that neither side test would have rejected.
C5_Witness ==
    \E t \in sh_tests :
        /\ SharePoint(t.s1, t.s2)
        /\ t.s1.left # t.s1.right
        /\ t.s2.left # t.s2.right
        /\ distance(t.s1.left, t.s1.right, t.s2.left) * distance(t.s1.left, t.s1.right, t.s2.right) <= 0
        /\ distance(t.s2.left, t.s2.right, t.s1.left) * distance(t.s2.left, t.s2.right, t.s1.right) <= 0
        /\ ~t.result

(***************************************************************************)
(* Properties of the undirected graph.                                     *)
(***************************************************************************)
InSeq(x, sq) == \E k \in 1..Len(sq) : sq[k] = x

\* the vertex ids that occur in an inserted edge
Referenced == {e[1] : e \in g_inserted} \cup {e[2] : e \in g_inserted}

MaxOf(S) == CHOOSE x \in S : \A y \in S : y <= x

\* the distinct unordered pairs that were inserted
UnorderedInserted == {{e[1], e[2]} : e \in g_inserted}

\* C6: for every inserted edge (u,v) both contains_edge((u,v)) and
\* contains_edge((v,u)) hold; the stored edge set is closed under reversal.
C6_BothDirections ==
    /\ \A e \in g_inserted : contains_edge(e) /\ contains_edge(<<e[2], e[1]>>)
    /\ \A e \in m_edges : <<e[2], e[1]>> \in m_edges

\* C6 witness: an edge between two different vertices was inserted in one
\* direction only.
C6_Witness ==
    \E e \in g_inserted : e[1] # e[2] /\ <<e[2], e[1]>> \notin g_inserted

\* C7: edge_count() equals the number of distinct unordered pairs {u,v} that
\* were inserted, u = v included.
C7_EdgeCount == edge_count = Cardinality(UnorderedInserted)

\* C8: v is in adjacents(u) if and only if u is in adjacents(v).
C8_AdjacentsSymmetric ==
    LET adj == [w \in QueryVertices |-> adjacents(w)]
    IN  \A u \in QueryVertices, v \in QueryVertices :
            InSeq(v, adj[u]) <=> InSeq(u, adj[v])

\* C8 witness: two different vertices are adjacent, the edge having been
\* inserted in one direction only.
C8_Witness ==
    \E u \in Vertices, v \in Vertices :
        /\ u # v
        /\ InSeq(v, adjacents(u))
        /\ <<v, u>> \notin g_inserted

C9_State ==
    /\ size[1] = vertex_count
    /\ g_inserted = {} => vertex_count = 0
    /\ g_inserted # {} => vertex_count = 1 + MaxOf(Referenced)
    /\ vertex_count >= Cardinality(Referenced)

Absent(v) == v \notin Referenced

C10_State ==
    /\ \A v \in QueryVertices : Absent(v) => degree(v) = 0 /\ adjacents(v) = <<>>
    /\ (g_ret.op = "degree" /\ Absent(g_ret.vertex)) => g_ret.value = 0
    /\ (g_ret.op = "adjacents" /\ Absent(g_ret.vertex)) => g_ret.value = <<>>

BonusIds == 1..Len(m_bonuses)

Done == c_pc = "done"

\* C11 (as stated): after calculate_armies(min_armies, max_armies) every
\* bonus with at least one child has an army value v with
\* min_armies <= v <= max_armies, for every pair of bounds.
C11_ArmiesWithinBounds ==
    Done =>
        \A k \in BonusIds :
            children(m_bonuses[k]) # {} =>
                /\ c_args.min_armies <= m_bonuses[k].armies
                /\ m_bonuses[k].armies <= c_args.max_armies

\* C11 (amended): for every pair of non-negative bounds with
\* min_armies <= max_armies, every bonus with at least one child has an
\* army value v with min_armies <= v <= max_armies after the call.
C11_ArmiesWithinOrderedBounds ==
    (Done /\ c_args.min_armies <= c_args.max_armies) =>
        \A k \in BonusIds :
            children(m_bonuses[k]) # {} =>
                /\ m_bonuses[k].armies \in Int
                /\ c_args.min_armies <= m_bonuses[k].armies
                /\ m_bonuses[k].armies <= c_args.max_armies

\* the call ran with min_armies < max_armies; one bonus was raised to
\* min_armies and another got a value strictly between the bounds
C11_Witness ==
    /\ Done
    /\ c_args.min_armies < c_args.max_armies
    /\ \E j \in BonusIds, k \in BonusIds :
         /\ round_int(RMul(c_locals[j].score, FromInt(c_args.max_armies))) < c_args.min_armies
         /\ m_bonuses[j].armies = c_args.min_armies
         /\ c_args.min_armies < m_bonuses[k].armies
         /\ m_bonuses[k].armies < c_args.max_armies

\* the score of the specification for c children, o outer adjacents and n
\* territories, c / n being the real-valued fraction
StatedScore(c, o, n) ==
    RAdd(RMul(<<1, 2>>, Rat(c, n)),
         RMul(<<1, 2>>, RMin(Rat(o, 2 * c), FromInt(1))))

\* C12: the score computed for a bonus with c >= 1 children, o outer
\* adjacents and n territories equals
\* 0.5 * (c / n) + 0.5 * min(0.5 * o / c, 1.0) with c / n real-valued.
C12_ScoreFormula ==
    Done =>
        \A k \in BonusIds :
            c_locals[k].score =
                StatedScore(Cardinality(children(m_bonuses[k])),
                            Len(c_locals[k].outer_adjacents),
                            Len(m_territories))

\* C13: in the end-to-end scenario (five territories, the six edges, one
\* bonus with children {0, 1}, min_armies 1, max_armies 10) the bonus gets
\* the army value 5.
C13_ScenarioArmy ==
    (Done /\ m_edges = ScenarioEdges) =>
        \A k \in BonusIds :
            children(m_bonuses[k]) = {0, 1} => m_bonuses[k].armies = 5

\* the non-child territories joined by an edge to some child
OuterNeighbors(bonus) ==
    {w \in ({e[1] : e \in m_edges} \cup {e[2] : e \in m_edges}) \ bonus.children :
        \E c \in bonus.children : <<c, w>> \in m_edges \/ <<w, c>> \in m_edges}

\* C14: outer_adjacents of a bonus holds exactly the non-child vertices w
\* with an edge {c, w} to some child c, each once, and no child; in the
\* scenario map the bonus {0, 1} has the outer adjacents {2, 4}.
C14_OuterAdjacents ==
    Done =>
        \A k \in BonusIds :
            LET oa == c_locals[k].outer_adjacents
            IN  /\ Range(oa) = OuterNeighbors(m_bonuses[k])
                /\ Len(oa) = Cardinality(Range(oa))
                /\ Range(oa) \cap children(m_bonuses[k]) = {}
                /\ (m_edges = ScenarioEdges /\ children(m_bonuses[k]) = {0, 1})
                       => Range(oa) = {2, 4}

\* the scenario bonus {0, 1}: 2 is reached from both children, 0 and 1 are
\* neighbors of each other, and the call has run
C14_Witness ==
    /\ Done
    /\ m_edges = ScenarioEdges
    /\ \E k \in BonusIds :
         /\ children(m_bonuses[k]) = {0, 1}
         /\ c_locals[k].outer_adjacents = <<2, 4>>
         /\ {0, 1, 2, 4} \subseteq adjacent_set(m_bonuses[k])

\* bonus j has no outer adjacents, bonus k has some, both have c children
IsolatedAndExposed(j, k) ==
    /\ Cardinality(children(m_bonuses[j])) = Cardinality(children(m_bonuses[k]))
    /\ Len(c_locals[j].outer_adjacents) = 0
    /\ Len(c_locals[k].outer_adjacents) >= 1

\* C15: of two bonuses of the same map with the same number of children,
\* one without outer adjacents and one with at least one, the isolated one
\* has the strictly lower score and never the higher army value.
C15_IsolatedScoresLower ==
    Done =>
        \A j \in BonusIds, k \in BonusIds :
            IsolatedAndExposed(j, k) =>
                /\ RLt(c_locals[j].score, c_locals[k].score)
                /\ m_bonuses[j].armies <= m_bonuses[k].armies

\* an isolated and an exposed bonus of the same size were given different
\* army values by the call
C15_Witness ==
    /\ Done
    /\ \E j \in BonusIds, k \in BonusIds :
         /\ IsolatedAndExposed(j, k)
         /\ m_bonuses[j].armies < m_bonuses[k].armies

(***************************************************************************)
(* Properties of the label engine.                                         *)
(***************************************************************************)
Returned == pl_pc = "done" /\ pl_result.op = "return"

Degenerate == width(envelope(polygon)) = Zero \/ height(envelope(polygon)) = Zero

\* the cells pushed before the loop: they have the largest half-width
InitialCells == {c \in pl_created : \A d \in pl_created : RLe(d.half, c.half)}

\* the points of the rectangle on the grid of step 1/2 from its minimum corner
GridPoints(rectangle) ==
    {Point(RAdd(PX(rectangle.min), Rat(i, 2)), RAdd(PY(rectangle.min), Rat(j, 2))) :
        i \in 0..(2 * Truncate(width(rectangle))), j \in 0..(2 * Truncate(height(rectangle)))}

\* the point lies in the square of the cell
Covers(cell, point) ==
    /\ RLe(RAbs(RSub(PX(point), PX(cell.center))), cell.half)
    /\ RLe(RAbs(RSub(PY(point), PY(cell.center))), cell.half)

\* C16: for a polygon with a non-degenerate bounding box the returned
\* distance d is within the precision of the maximum: every cell created by
\* the search was subdivided or has max <= d + precision, the initial
\* cells cover the bounding rectangle, and no point of the bounding
\* rectangle has a signed distance above d + precision.
C16_WithinPrecision ==
    (Returned /\ ~Degenerate) =>
        LET d == pl_result.distance
            polygon_envelope == envelope(polygon)
        IN  /\ \A c \in pl_created : c \in pl_split \/ RootWithin(c.max, d, precision)
            /\ \A point \in GridPoints(polygon_envelope) :
                 /\ \E c \in InitialCells : Covers(c, point)
                 /\ RLe(distance_to_polygon(point, polygon), RAdd(d, precision))

\* C17: when the bounding rectangle has zero width or zero height,
\* polylabel returns the minimum corner of the rectangle with distance 0
\* straight away: no cell is created, the centroid is not computed and the
\* loop is not entered.
C17_DegenerateEnvelope ==
    Degenerate =>
        /\ pl_pc \in {"start", "done"}
        /\ pl_created = {}
        /\ queue = EmptyBag
        /\ pl_centroid = NoCell
        /\ pl_pc = "done" =>
             pl_result = [op |-> "return", point |-> envelope(polygon).min, distance |-> Zero]

\* polylabel has returned for a ring of zero width or height that does not
\* start at its minimum corner
C17_Witness ==
    /\ Returned
    /\ Degenerate
    /\ polygon.outer[1] # envelope(polygon).min
    /\ pl_result.point = envelope(polygon).min

Origin == Point(Zero, Zero)

\* the ring is an axis-aligned square centred at the origin
CentredSquare ==
    LET e == envelope(polygon)
    IN  /\ Len(polygon.outer) = 4
        /\ RLt(Zero, width(e))
        /\ width(e) = height(e)
        /\ RAdd(PX(e.min), PX(e.max)) = Zero
        /\ RAdd(PY(e.min), PY(e.max)) = Zero

\* C18: for an axis-aligned square of side s centred at the origin and any
\* precision, polylabel returns the origin with distance s / 2.
C18_CentredSquare ==
    (Returned /\ CentredSquare) =>
        /\ pl_result.point = Origin
        /\ pl_result.distance = RDiv(width(envelope(polygon)), FromInt(2))

\* polylabel has returned for a centred square after it subdivided a cell
C18_Witness ==
    /\ Returned
    /\ CentredSquare
    /\ pl_split # {}
    /\ pl_result.point = Origin

\* C19: of two calls on the same polygon, the call with the smaller
\* precision reports a distance greater than or equal to the distance the
\* call with the larger precision reports.
C19_MonotoneInPrecision ==
    (Returned /\ pl_prev.op = "return") =>
        /\ RLt(pl_prev.precision, precision) => RLe(pl_result.distance, pl_prev.distance)
        /\ RLt(precision, pl_prev.precision) => RLe(pl_prev.distance, pl_result.distance)

\* the call with the finer precision reported a strictly greater distance
C19_Witness ==
    /\ Returned
    /\ pl_prev.op = "return"
    /\ RLt(pl_prev.precision, precision)
    /\ RLt(pl_result.distance, pl_prev.distance)

\* the cross terms of the ring, edge by edge
CrossTerms(outer) == [i \in 1..Len(outer) |-> Cross(outer[i], outer[Pred(outer, i)])]

\* the accumulated area: 3 times the sum of the cross terms
SignedArea3(outer) == RMul(FromInt(3), RSumOf(CrossTerms(outer)))

\* the accumulated coordinate sums
SumX(outer) ==
    RSumOf([i \in 1..Len(outer) |->
              RMul(RAdd(PX(outer[i]), PX(outer[Pred(outer, i)])), CrossTerms(outer)[i])])

SumY(outer) ==
    RSumOf([i \in 1..Len(outer) |->
              RMul(RAdd(PY(outer[i]), PY(outer[Pred(outer, i)])), CrossTerms(outer)[i])])

\* C20: get_centroid never fails: whenever polylabel has passed its first
\* guesses there is a centroid cell of half-width 0; it is seeded at the
\* first vertex of the ring when the accumulated area is non-positive, and
\* otherwise at the accumulated coordinate sums divided (in the coordinate
\* type) by that area.
C20_Centroid ==
    LET outer == polygon.outer
        area == SignedArea3(outer)
    IN  /\ (pl_pc = "loop" \/ (Returned /\ ~Degenerate)) => pl_centroid # NoCell
        /\ pl_centroid # NoCell =>
             /\ pl_centroid.half = Zero
             /\ pl_centroid.distance = distance_to_polygon(pl_centroid.center, polygon)
             /\ RLe(area, Zero) => pl_centroid.center = outer[1]
             /\ RLt(Zero, area) =>
                  pl_centroid.center = Point(TDiv(SumX(outer), area), TDiv(SumY(outer), area))

\* the centroid of a ring of positive accumulated area was computed and it
\* is not the first vertex
C20_Witness ==
    /\ pl_centroid # NoCell
    /\ RLt(Zero, SignedArea3(polygon.outer))
    /\ pl_centroid.center # polygon.outer[1]
    /\ RLt(Zero, pl_centroid.distance)

(***************************************************************************)
(* Properties of the convert handler.                                      *)
(***************************************************************************)
\* the map m is a bijection from its keys onto 0..N-1
BijectionOnto(m) ==
    /\ \A k \in DOMAIN m : m[k] \in 0..(MapSize(m) - 1)
    /\ \A j \in DOMAIN m, k \in DOMAIN m : m[j] = m[k] => j = k

\* the object at index i of the buffer has the internal id i
IndexedById(buffer) == \A i \in 0..(Len(buffer) - 1) : BufferAt(buffer, i).id = i

C21_State ==
    /\ BijectionOnto(m_nids) /\ BijectionOnto(m_wids) /\ BijectionOnto(m_rids)
    /\ Len(m_nodes) = MapSize(m_nids) /\ Len(m_ways) = MapSize(m_wids)
    /\ IndexedById(m_nodes) /\ IndexedById(m_ways)
    /\ \A ref \in DOMAIN m_nids : BufferAt(m_nodes, m_nids[ref]).lon = NodeRef(ref).lon

\* the step is a call for an OSM id that the map of its kind already holds
SeenCall ==
    \/ ch_ret'.op = "create_node" /\ ch_ret'.ref \in DOMAIN m_nids
    \/ ch_ret'.op = "create_way" /\ ch_ret'.ref \in DOMAIN m_wids

\* the object the call of the step has to return when the id was seen
ExistingObject ==
    IF ch_ret'.op = "create_node"
    THEN BufferAt(m_nodes, m_nids[ch_ret'.ref])
    ELSE BufferAt(m_ways, m_wids[ch_ret'.ref])

\* C21: after any sequence of create_node and create_way calls each id map
\* is a bijection from the OSM ids seen onto 0..N-1, the object at index i
\* of the node (way) buffer has internal id i, and a call for an OSM id
\* that was seen before returns the existing object and adds nothing to
\* any buffer or map.
C21_ConsecutiveIds ==
    /\ [](C21_State)
    /\ [][SeenCall =>
            /\ ch_ret'.value = ExistingObject
            /\ UNCHANGED <<m_nodes, m_ways, m_relations, m_nids, m_wids, m_rids>>]_vars

\* a way was created whose node list names a node twice and a node that
\* was created before, and the way was asked for again after another way
C21_Witness ==
    /\ ch_ret.op = "create_way"
    /\ Len(m_ways) = 2
    /\ ch_ret.value = BufferAt(m_ways, 0)
    /\ ch_ret.value.nodes = <<1, 0, 2, 1>>

(***************************************************************************)
(* Properties of the steps of the sweep.                                   *)
(***************************************************************************)
Started == sh_pc \in {"loop", "done"}

SegmentIds == 0..(Len(segments) - 1)

\* the events of segment i, whatever their type
EventsOfEdge(i) == {e \in EventQueue(segments) : e.edge = i}

\* the events that were popped so far
Popped == EventQueue(segments) \ eq

LeftPopped(i) == \E e \in Popped : e.edge = i /\ e.type = "LEFT"

RightPopped(i) == \E e \in Popped : e.edge = i /\ e.type = "RIGHT"

\* C22: shamos_hoey pops the events in non-decreasing point order; every
\* segment has exactly one LEFT and one RIGHT event, the LEFT event carries
\* the smaller endpoint, and no RIGHT event is popped before the LEFT event
\* of its segment.
C22_EventOrder ==
    Started =>
        /\ \A e \in Popped, f \in eq : ~compare_gt(e.point, f.point)
        /\ \A i \in SegmentIds :
             /\ Cardinality({e \in EventsOfEdge(i) : e.type = "LEFT"}) = 1
             /\ Cardinality({e \in EventsOfEdge(i) : e.type = "RIGHT"}) = 1
             /\ \A e \in EventsOfEdge(i), f \in EventsOfEdge(i) :
                  (e.type = "LEFT" /\ f.type = "RIGHT") => ~compare_gt(e.point, f.point)
             /\ RightPopped(i) => LeftPopped(i)

\* the segments whose LEFT event was processed and whose RIGHT event was not
Active == {i \in SegmentIds : LeftPopped(i) /\ ~RightPopped(i)}

TreeEdges == {m_tree[k].edge : k \in 1..Len(m_tree)}

\* C23: after each processed event the active set holds exactly the
\* segments whose LEFT event was processed and whose RIGHT event was not,
\* the index map has the same members as the ordered set, and the active
\* set is empty when shamos_hoey returns false.
C23_ActiveSet ==
    /\ sh_pc = "loop" =>
         /\ TreeEdges = Active
         /\ Len(m_tree) = Cardinality(Active)
         /\ DOMAIN m_segments = TreeEdges
    /\ sh_result = "false" => m_tree = <<>> /\ DOMAIN m_segments = {}

\* the event the step pops
PoppedEvent == CHOOSE e \in eq : e \notin eq'

\* the step processes a RIGHT event
RightStep == sh_pc = "loop" /\ eq' # eq /\ PoppedEvent.type = "RIGHT"

\* what a step that processes a RIGHT event does according to C24
RightEventAsStated ==
    RightStep =>
         LET i == PoppedEvent.edge
             at == {k \in 1..Len(m_tree) : m_tree[k].edge = i}
         IN  /\ i \in DOMAIN m_segments
             /\ Cardinality(at) = 1
             /\ \A k \in at :
                  LET both == k > 1 /\ k < Len(m_tree)
                      hit == both /\ intersect(m_tree[k - 1], m_tree[k + 1])
                  IN  /\ sh_tests' = IF both THEN {Test(m_tree[k - 1], m_tree[k + 1])} ELSE {}
                      /\ hit => sh_pc' = "done" /\ sh_result' = "true"
                      /\ ~hit =>
                           /\ sh_pc' = "loop"
                           /\ m_tree' = SubSeq(m_tree, 1, k - 1) \o SubSeq(m_tree, k + 1, Len(m_tree))
                           /\ m_segments' = MapErase(m_segments, i)

\* C24: on a RIGHT event for segment i, i is found in the active set, its
\* predecessor is tested against its successor exactly when both exist,
\* true is returned if that pair intersects, and otherwise i and only i is
\* removed from the active set, every other active segment staying in
\* place.
C24_RightEvent == [][RightEventAsStated]_vars

\* the endpoints p and q do not lie strictly on the same side of the line
\* through a and b
NotSameSide(a, b, p, q) == Orient(a, b, p) * Orient(a, b, q) <= 0

\* the crossing test by orientations
OrientationTest(s1, s2) ==
    /\ NotSameSide(s1.left, s1.right, s2.left, s2.right)
    /\ NotSameSide(s2.left, s2.right, s1.left, s1.right)

\* C25: for two normalized segments that share no endpoint, intersect is
\* true exactly when neither segment has both endpoints strictly on one
\* side of the line through the other, and it gives the same result with
\* the arguments exchanged.
C25_IntersectByOrientation ==
    \A t \in sh_tests :
        ~SharePoint(t.s1, t.s2) =>
            /\ t.result = OrientationTest(t.s1, t.s2)
            /\ intersect(t.s2, t.s1) = t.result

\* C26: the result of shamos_hoey depends only on the set of undirected
\* segments: a call on the same segments in another order of the list, or
\* with first and last of some segments exchanged, returns the same boolean.
C26_OrderIndependent ==
    (sh_pc = "done" /\ sh_prev.op = "return") => sh_result = sh_prev.result

(***************************************************************************)
(* Properties of the loop of polylabel.                                    *)
(***************************************************************************)
\* the step is an iteration of the loop
LoopStep == pl_pc = "loop" /\ queue # EmptyBag /\ pl_pc' = "loop"

\* the four corners of the square of the cell
Corners(cell) ==
    {Point(RAdd(PX(cell.center), RMul(FromInt(sx), cell.half)),
           RAdd(PY(cell.center), RMul(FromInt(sy), cell.half))) : sx \in {-1, 1}, sy \in {-1, 1}}

\* the four cells of half-width half around the centre of the cell
CellsAround(cell, half) ==
    {Cell(Point(RAdd(PX(cell.center), RMul(FromInt(sx), half)),
                RAdd(PY(cell.center), RMul(FromInt(sy), half))), half, polygon) :
        sx \in {-1, 1}, sy \in {-1, 1}}

\* what an iteration of the loop does according to C27
IterationAsStated ==
    LoopStep =>
        \E cell \in BagToSet(queue) :
            /\ \A d \in BagToSet(queue) : ~RootLt(cell.max, d.max)
            /\ LET rest == queue (-) SetToBag({cell})
                   half == RDiv(cell.half, FromInt(2))
                   pushed == CellsAround(cell, half)
               IN  IF RootWithin(cell.max, best_cell'.distance, precision)
                   THEN queue' = rest
                   ELSE /\ queue' = rest (+) SetToBag(pushed)
                        /\ BagCardinality(queue') = BagCardinality(rest) + 4
                        /\ \A corner \in Corners(cell) : \E c \in pushed : Covers(c, corner)

\* C27: in each iteration of the loop the popped cell is the queued cell
\* with the largest max; it is discarded without children exactly when its
\* max minus the distance of the best cell (taken after the popped cell
\* was considered) is at most the precision; otherwise exactly four cells
\* are enqueued, each with exactly half the half-width of the popped cell
\* and centred at the popped centre plus or minus that half-width in x and
\* in y, so that the four together cover the popped cell.
C27_LoopIteration == [][IterationAsStated]_vars

\* half * sqrt(2) <= precision
SmallCell(cell) == RootNonPos(RSub(Zero, precision), cell.half)

\* C28: for a polygon with a non-degenerate bounding box the loop of
\* polylabel terminates: from every state of the loop the queue becomes
\* empty and polylabel returns; a cell with half * sqrt(2) <= precision is
\* never subdivided, and every cell pushed by a subdivision has at most
\* half the half-width of the subdivided cell.
C28_Terminates ==
    /\ [](\A cell \in pl_split : ~SmallCell(cell))
    /\ [][LoopStep =>
            \A child \in pl_created' \ pl_created : \E cell \in pl_split' :
                RLe(RMul(FromInt(2), child.half), cell.half) /\ Covers(cell, child.center)]_vars
    /\ (pl_pc = "loop" ~> (queue = EmptyBag /\ pl_pc = "done"))

\* polylabel has returned after it subdivided a cell and discarded a cell
\* with half * sqrt(2) <= precision
C28_Witness ==
    /\ Returned
    /\ pl_split # {}
    /\ \E cell \in pl_popped \ pl_split : SmallCell(cell) /\ RLt(Zero, cell.half)

\* the candidates polylabel has considered so far: the centroid seed, the
\* centre of the bounding rectangle and the popped cells
Candidates ==
    {pl_centroid, Cell(center(envelope(polygon)), Zero, polygon)} \cup pl_popped

\* polylabel is past its seeding and has not been called again
Seeded == pl_pc \in {"loop", "done"} /\ ~Degenerate

\* C29: once polylabel has seeded its best candidate, the distance of the
\* best candidate never decreases and is the maximum of the signed
\* distances of the centroid seed, the centre of the bounding rectangle and
\* all cells popped so far; the returned point and distance are those of a
\* candidate that attains this maximum.
C29_BestIsMaximum ==
    /\ [](Seeded =>
            LET considered == Candidates
            IN  /\ best_cell \in considered
                /\ \A c \in considered : RLe(c.distance, best_cell.distance)
                /\ Returned =>
                     \E c \in considered :
                         /\ \A d \in considered : RLe(d.distance, c.distance)
                         /\ pl_result.point = c.center
                         /\ pl_result.distance = c.distance)
    /\ [][(Seeded /\ Seeded') => RLe(best_cell.distance, best_cell'.distance)]_vars

\* polylabel has returned the centre of a popped cell that is strictly
\* better than both seeds
C29_Witness ==
    /\ Returned
    /\ ~Degenerate
    /\ best_cell \in pl_popped
    /\ RLt(pl_centroid.distance, pl_result.distance)
    /\ RLt(Cell(center(envelope(polygon)), Zero, polygon).distance, pl_result.distance)
    /\ pl_result.point = best_cell.center

\* the vertices w for which the edge {v, w} was inserted, in either direction
Neighbours(v) == {w \in Vertices : <<v, w>> \in g_inserted \/ <<w, v>> \in g_inserted}

CalculateStep == c_pc = "ready" /\ c_pc' = "done"

\* the army value the loop body computes from the children of a bonus
\* alone, the call's arguments, the graph and the number of territories
ArmiesFor(kids, min_armies, max_armies) ==
    bonus_armies(loop_body([children |-> kids]).score, min_armies, max_armies)

\* C31: calculate_armies writes only the army value of each bonus: the
\* adjacency graph, the territories, every bonus's children and every
\* super-bonus are as before the call, and the value written to a bonus is
\* determined by its own children, whatever its place among the bonuses,
\* the other bonuses and the values the bonuses held before.
C31_WritesArmiesOnly ==
    [][CalculateStep =>
        /\ UNCHANGED <<m_edges, m_vertices, m_territories, m_super_bonuses>>
        /\ Len(m_bonuses') = Len(m_bonuses)
        /\ \A k \in BonusIds :
              /\ [m_bonuses'[k] EXCEPT !.armies = m_bonuses[k].armies] = m_bonuses[k]
              /\ m_bonuses'[k].armies =
                    ArmiesFor(m_bonuses[k].children, c_args'.min_armies, c_args'.max_armies)
        /\ \A j \in BonusIds, k \in BonusIds :
              m_bonuses[j].children = m_bonuses[k].children
                  => m_bonuses'[j].armies = m_bonuses'[k].armies]_vars

\* C31 witness: calculate_armies has written different values to two
\* bonuses, the first of them the larger, with a super-bonus on the map
C31_Witness ==
    /\ c_pc = "done"
    /\ m_super_bonuses # <<>>
    /\ Len(m_bonuses) = 2
    /\ m_bonuses[1].armies > m_bonuses[2].armies
    /\ m_bonuses[1].armies <= MaxArmies

\* complete_relation is called in this step
CompleteStep == ch_ret'.op = "complete_relation" /\ Len(m_relations') = Len(m_relations) + 1

\* the OSM relation the call of the step completes
Completed == CHOOSE osm_relation \in OsmRelations : osm_relation.id = ch_ret'.ref

\* the members a stored relation has to have: the way members of the OSM
\* relation with a non-zero reference and the role outer or inner
WayMembers(osm_relation) ==
    SelectSeq(osm_relation.members,
              LAMBDA osm_member : /\ osm_member.type = "way"
                                  /\ osm_member.ref # 0
                                  /\ osm_member.role \in {"outer", "inner"})

\* every call appends one relation whose members are the way members of
\* the completed relation, in their order, under the internal ids of the ways
MembersAsStated ==
    CompleteStep =>
        LET stored == m_relations'[Len(m_relations')]
            expected == WayMembers(Completed)
        IN  /\ SubSeq(m_relations', 1, Len(m_relations)) = m_relations
            /\ Len(stored.members) = Len(expected)
            /\ \A k \in 1..Len(expected) :
                  /\ expected[k].ref \in DOMAIN m_wids'
                  /\ stored.members[k].ref = m_wids'[expected[k].ref]
                  /\ stored.members[k].role = expected[k].role

\* C32: after any sequence of complete_relation calls, the same OSM
\* relation possibly completed more than once, the relation at index i of
\* the relation buffer has the internal id i and no two stored relations
\* have the same internal id; the members of each stored relation are its
\* way members with a non-zero reference and the role outer or inner, in
\* their original order.
C32_RelationIds ==
    /\ [](/\ IndexedById(m_relations)
          /\ \A i \in 1..Len(m_relations), j \in 1..Len(m_relations) :
                m_relations[i].id = m_relations[j].id => i = j)
    /\ [][MembersAsStated]_vars

====
